---- MODULE Spec2Model ----
(***************************************************************************)
(* Model of the live-captions transcript server (worker.py).               *)
(*                                                                         *)
(* Two execution contexts share the state:                                 *)
(*   - the asyncio event loop thread, which runs TranscriptionHandler      *)
(*     .accept, the callbacks posted by run_coroutine_threadsafe and the   *)
(*     __send_results tasks;                                               *)
(*   - the TranscriptionWorker thread, which runs TranscriptionWorker.run. *)
(* Audio loading and the inference transform are external collaborators:   *)
(* the number of chunks of a connection and the success or failure of one  *)
(* transcribe call are inputs.                                             *)
(***************************************************************************)
EXTENDS Naturals, Sequences, FiniteSets

\* ---------------------------------------------------------------- bounds
NumConns == 2        \* websocket connections accepted by the handler
MaxChunks == 3       \* audio chunks one connection submits at most
MaxEvents == 1       \* exceptional events in one behaviour: a transcribe
                     \*   call that raises, a client that goes away, a
                     \*   closed event loop, stop(), a second start(), a
                     \*   repeated get_request_queue(id)

ConnIds == 1..NumConns

\* ---------------------------------------------------------------- state
VARIABLES
  started,      \* threading.Thread: start() has been called on the worker
  startErr,     \* a start() call has raised RuntimeError
  is_running,   \* TranscriptionWorker.is_running
  connections,  \* TranscriptionWorker.connections: dict, insertion ordered,
                \*   as a sequence of <<connection_id, queue handle>>
  queues,       \* heap of queue.Queue objects: handle -> FIFO of requests
  returned,     \* per id, the handles get_request_queue returned, in order
  events,       \* exceptional events so far
  cpc,          \* per connection: position of its accept() coroutine
  request_queue,\* per connection: accept's local request_queue handle
  nchunks,      \* per connection: len(audio_chunks)
  sub,          \* per connection: chunks put on the inbound queue so far
  closed,       \* per connection: the client's websocket is gone
  loopBusy,     \* the connections whose accept() holds the event loop in
                \*   its for loop (no await in it): empty or one connection
  loopClosed,   \* the parent event loop has been closed
  wpc,          \* worker thread position in run()
  snapshot,     \* run(): self.connections.copy()
  idx,          \* run(): position of the for loop in the snapshot
  request,      \* run(): the dequeued request, as <<r>>, or <<>>
  transcription,\* run(): the text transcribe returned, as <<t>>, or <<>>
  engine,       \* calls currently inside TranscriptionService.transcribe
  loopq,        \* callbacks posted to the event loop, in posting order
  result_queue, \* per connection: its asyncio.Queue of texts
  out,          \* history: texts ever put on each result queue, in order
  sent,         \* history: texts the websocket of each connection got
  deq,          \* history: requests the worker dequeued per connection
  failed,       \* history: audio of the requests whose transcribe raised
  lost,         \* history: audio of the results dropped on the way out
  passDeq,      \* history: dequeues per connection in the current pass
  freePasses,   \* history: passes completed in a row without any request
                \*   and without an idle step between them (capped at 2)
  owed,         \* history: <<a, b>> with a second and b first in line, in
                \*   two different inbound queues, when a pass started
  afterFail,    \* history: audio of the requests enqueued after a failure
  churned       \* history: connections whose client went away while one
                \*   of their requests was inside transcribe

vars == <<started, startErr, is_running, connections, queues, returned,
          events, cpc, request_queue, nchunks, sub, closed, loopBusy,
          loopClosed, wpc, snapshot, idx, request, transcription, engine,
          loopq, result_queue, out, sent, deq, failed, lost, passDeq,
          freePasses, owed, afterFail, churned>>

threadVars == <<started, startErr, is_running>>
registryVars == <<connections, returned>>
handlerVars == <<cpc, request_queue, nchunks, sub>>
loopVars == <<loopBusy, loopClosed>>
workerVars == <<wpc, snapshot, idx, request, transcription>>
sinkVars == <<result_queue, out, sent>>
passVars == <<passDeq, freePasses, owed>>

\* ---------------------------------------------------------------- helpers
\* Mutant of TranscriptionRequest: every request carries the result queue
\* of connection 1.
TranscriptionRequest_shared(c, n) == [audio |-> <<c, n>>, result_queue |-> 1]

\* TranscriptionRequest(audio, result_queue): the n-th chunk of connection c
\* and the asyncio.Queue accept() created for c.
TranscriptionRequest(c, n) == [audio |-> <<c, n>>, result_queue |-> c]

\* TranscriptionService.transcribe: a deterministic text per audio chunk.
transcribe(audio) == [text |-> audio]

\* dict lookup d[id], for a key of d.
Lookup(d, id) == d[CHOOSE i \in 1..Len(d) : d[i][1] = id][2]

\* dict store: d[id] = q, a known key keeps its position.
RECURSIVE Store(_, _, _)
Store(d, id, q) ==
  IF d = <<>> THEN <<<<id, q>>>>
  ELSE IF Head(d)[1] = id THEN <<<<id, q>>>> \o Tail(d)
  ELSE <<Head(d)>> \o Store(Tail(d), id, q)

Keys(d) == {d[i][1] : i \in 1..Len(d)}

\* queue.Queue(): maxsize 0, a queue without capacity limit.
maxsize == 0

\* queue.Queue.put_nowait: raises Full when a positive maxsize is reached.
put_nowait(q, item) ==
  IF maxsize > 0 /\ Len(q) >= maxsize
  THEN [q |-> q, full |-> TRUE]
  ELSE [q |-> Append(q, item), full |-> FALSE]

\* Mutant of queue_get: the newest item is taken (a LIFO queue).
queue_get_lifo(q) == [item |-> q[Len(q)], rest |-> SubSeq(q, 1, Len(q) - 1)]

\* queue.Queue.get on a queue that holds an item: the oldest one.
queue_get(q) == [item |-> Head(q), rest |-> Tail(q)]

\* Mutant of GetRequestQueue: a new queue is created and stored for a
\* known id too.
GetRequestQueue_fresh(conns, qs, id) ==
  [conns |-> Store(conns, id, Len(qs) + 1),
   qs |-> Append(qs, <<>>),
   ret |-> Len(qs) + 1]

\* TranscriptionWorker.get_request_queue: lookup, or create and store.
GetRequestQueue(conns, qs, id) ==
  IF id \in Keys(conns)
  THEN [conns |-> conns, qs |-> qs, ret |-> Lookup(conns, id)]
  ELSE [conns |-> Store(conns, id, Len(qs) + 1),
        qs |-> Append(qs, <<>>),
        ret |-> Len(qs) + 1]

\* The engine's bookkeeping around one transcribe call.
EnterEngine(e, ctx, audio) == e \cup {[ctx |-> ctx, audio |-> audio]}

\* Mutant of LeaveEngine: the call is not waited for, the worker goes on
\* while the engine still works on the request.
LeaveEngine_async(e, ctx, audio) == e

LeaveEngine(e, ctx, audio) == e \ {[ctx |-> ctx, audio |-> audio]}

\* The pairs <<second request of a, first request of b>> of two different
\* connections of snapshot snap whose queues hold them.
Owed(snap, qs) ==
  {<<qs[snap[i][2]][2].audio, qs[snap[j][2]][1].audio>> :
     <<i, j>> \in {p \in (1..Len(snap)) \X (1..Len(snap)) :
                     /\ p[1] # p[2]
                     /\ Len(qs[snap[p[1]][2]]) >= 2
                     /\ Len(qs[snap[p[2]][2]]) >= 1}}

\* One more exceptional event, within the budget of a behaviour.
OneMoreEvent == events < MaxEvents /\ events' = events + 1

\* ---------------------------------------------------------------- initial
Init ==
  /\ started = FALSE
  /\ startErr = FALSE
  /\ is_running = TRUE
  /\ connections = <<>>
  /\ queues = <<>>
  /\ returned = [c \in ConnIds |-> <<>>]
  /\ events = 0
  /\ cpc = [c \in ConnIds |-> "idle"]
  /\ request_queue = [c \in ConnIds |-> 0]
  /\ nchunks = [c \in ConnIds |-> 0]
  /\ sub = [c \in ConnIds |-> 0]
  /\ closed = [c \in ConnIds |-> FALSE]
  /\ loopBusy = {}
  /\ loopClosed = FALSE
  /\ wpc = "new"
  /\ snapshot = <<>>
  /\ idx = 0
  /\ request = <<>>
  /\ transcription = <<>>
  /\ engine = {}
  /\ loopq = <<>>
  /\ result_queue = [c \in ConnIds |-> <<>>]
  /\ out = [c \in ConnIds |-> <<>>]
  /\ sent = [c \in ConnIds |-> <<>>]
  /\ deq = [c \in ConnIds |-> 0]
  /\ failed = {}
  /\ lost = {}
  /\ passDeq = [c \in ConnIds |-> 0]
  /\ freePasses = 0
  /\ owed = {}
  /\ afterFail = {}
  /\ churned = {}

\* ---------------------------------------------------------------- lifecycle
\* threading.Thread.start(): starts run() once, RuntimeError afterwards.
ThreadStart(isStarted, pc) ==
  IF isStarted
  THEN [started |-> TRUE, wpc |-> pc, err |-> TRUE]
  ELSE [started |-> TRUE, wpc |-> "top", err |-> FALSE]

\* transcription_worker.start()
Start ==
  LET r == ThreadStart(started, wpc) IN
  /\ started' = r.started
  /\ wpc' = r.wpc
  /\ startErr' = (startErr \/ r.err)
  /\ IF started THEN OneMoreEvent ELSE UNCHANGED events
  /\ UNCHANGED <<is_running, registryVars, queues, handlerVars, closed,
                 loopVars, snapshot, idx, request, transcription, engine,
                 loopq, sinkVars, deq, failed, lost, passVars, afterFail,
                 churned>>

\* TranscriptionWorker.stop()
Stop ==
  /\ OneMoreEvent
  /\ is_running' = FALSE
  /\ UNCHANGED <<started, startErr, registryVars, queues, handlerVars, closed,
                 loopVars, workerVars, engine, loopq, sinkVars, deq, failed,
                 lost, passVars, afterFail, churned>>

\* ---------------------------------------------------------------- handler
\* accept(), up to the await of the audio loading: the connection id is a
\* fresh uuid, the request queue is looked up or created, the result queue
\* and the sender task are created.
Accept(c) ==
  /\ started
  /\ cpc[c] = "idle"
  /\ loopBusy = {}
  /\ ~loopClosed
  /\ LET r == GetRequestQueue(connections, queues, c) IN
       /\ connections' = r.conns
       /\ queues' = r.qs
       /\ request_queue' = [request_queue EXCEPT ![c] = r.ret]
       /\ returned' = [returned EXCEPT ![c] = Append(@, r.ret)]
  /\ cpc' = [cpc EXCEPT ![c] = "loading"]
  /\ UNCHANGED <<events, threadVars, nchunks, sub, closed, loopVars,
                 workerVars, engine, loopq, sinkVars, deq, failed, lost,
                 passVars, afterFail, churned>>

\* get_request_queue(id) called again for a registered id.
Register(id) ==
  /\ started
  /\ id \in Keys(connections)
  /\ OneMoreEvent
  /\ LET r == GetRequestQueue(connections, queues, id) IN
       /\ connections' = r.conns
       /\ queues' = r.qs
       /\ returned' = [returned EXCEPT ![id] = Append(@, r.ret)]
  /\ UNCHANGED <<threadVars, handlerVars, closed, loopVars, workerVars,
                 engine, loopq, sinkVars, deq, failed, lost, passVars,
                 afterFail, churned>>

\* accept(): the audio loading returns n chunks (at least one: nchunks is
\* the ceiling of a positive quotient) and the for loop begins.
LoadDone(c) ==
  /\ cpc[c] = "loading"
  /\ loopBusy = {}
  /\ ~loopClosed
  /\ \E n \in 1..MaxChunks :
       /\ nchunks' = [nchunks EXCEPT ![c] = n]
       /\ cpc' = [cpc EXCEPT ![c] = "submitting"]
       /\ loopBusy' = {c}
  /\ UNCHANGED <<events, threadVars, registryVars, queues, request_queue, sub,
                 closed, loopClosed, workerVars, engine, loopq, sinkVars, deq,
                 failed, lost, passVars, afterFail, churned>>

\* accept(): one iteration of the for loop, put_nowait of the next chunk.
Submit(c) ==
  /\ cpc[c] = "submitting"
  /\ LET n == sub[c] + 1
         r == put_nowait(queues[request_queue[c]], TranscriptionRequest(c, n))
     IN
       /\ queues' = [queues EXCEPT ![request_queue[c]] = r.q]
       /\ sub' = [sub EXCEPT ![c] = n]
       /\ cpc' = [cpc EXCEPT ![c] =
                    IF n = nchunks[c] THEN "done" ELSE "submitting"]
       /\ loopBusy' = IF n = nchunks[c] THEN {} ELSE loopBusy
       /\ afterFail' = IF failed # {} /\ ~r.full
                       THEN afterFail \cup {<<c, n>>} ELSE afterFail
  /\ UNCHANGED <<events, threadVars, registryVars, request_queue, nchunks,
                 closed, loopClosed, workerVars, engine, loopq, sinkVars, deq,
                 failed, lost, passVars, churned>>

\* dict delete: del d[id].
RECURSIVE Delete(_, _)
Delete(d, id) ==
  IF d = <<>> THEN <<>>
  ELSE IF Head(d)[1] = id THEN Tail(d)
  ELSE <<Head(d)>> \o Delete(Tail(d), id)

\* Mutant of Disconnect: the connection is removed from the registry when
\* its client goes away.
Disconnect_unregister(c) ==
  /\ cpc[c] # "idle"
  /\ ~closed[c]
  /\ OneMoreEvent
  /\ closed' = [closed EXCEPT ![c] = TRUE]
  /\ connections' = Delete(connections, c)
  /\ churned' = IF \E e \in engine : e.audio[1] = c
                THEN churned \cup {c} ELSE churned
  /\ UNCHANGED <<threadVars, returned, queues, handlerVars, loopVars,
                 workerVars, engine, loopq, sinkVars, deq, failed, lost,
                 passVars, afterFail>>

\* The client of connection c goes away.
Disconnect(c) ==
  /\ cpc[c] # "idle"
  /\ ~closed[c]
  /\ OneMoreEvent
  /\ closed' = [closed EXCEPT ![c] = TRUE]
  /\ churned' = IF \E e \in engine : e.audio[1] = c
                THEN churned \cup {c} ELSE churned
  /\ UNCHANGED <<threadVars, registryVars, queues, handlerVars, loopVars,
                 workerVars, engine, loopq, sinkVars, deq, failed, lost,
                 passVars, afterFail>>

\* The parent event loop is closed (it runs no callback at that moment).
CloseLoop ==
  /\ started
  /\ ~loopClosed
  /\ loopBusy = {}
  /\ OneMoreEvent
  /\ loopClosed' = TRUE
  /\ UNCHANGED <<threadVars, registryVars, queues, handlerVars, closed,
                 loopBusy, workerVars, engine, loopq, sinkVars, deq, failed,
                 lost, passVars, afterFail, churned>>

\* ---------------------------------------------------------------- worker
Min(a, b) == IF a < b THEN a ELSE b

\* Mutant of WhileCondition: the loop never reads the flag.
WhileCondition_forever(flag) == TRUE

\* run(): the condition of `while self.is_running`.
WhileCondition(flag) == flag

\* run(): `while self.is_running` and, when it holds, the copy of the
\* registry the for loop iterates.  A copy without entries is a pass that
\* is over at once, and the while condition is evaluated again.
Top ==
  /\ wpc = "top"
  /\ IF ~WhileCondition(is_running)
     THEN /\ wpc' = "stopped"
          /\ UNCHANGED <<snapshot, idx, passVars>>
     ELSE IF connections = <<>>
     THEN /\ wpc' = "top"
          /\ freePasses' = Min(freePasses + 1, 2)
          /\ UNCHANGED <<snapshot, idx, passDeq, owed>>
     ELSE /\ wpc' = "get"
          /\ snapshot' = connections
          /\ idx' = 1
          /\ passDeq' = [c \in ConnIds |-> 0]
          /\ freePasses' = 0
          /\ owed' = owed \cup Owed(connections, queues)
  /\ UNCHANGED <<events, threadVars, registryVars, queues, handlerVars,
                 closed, loopVars, request, transcription, engine, loopq,
                 sinkVars, deq, failed, lost, afterFail, churned>>

\* The queue of the connection the for loop is at.
CurQueue == snapshot[idx][2]

\* Mutant of Advance: the worker stays at the connection it served.
Advance_stay ==
  /\ wpc' = "get"
  /\ UNCHANGED <<snapshot, idx>>

\* Mutant of Advance: the for loop iterates the registry itself, it goes
\* on to the entries added since the pass started.
Advance_live ==
  IF idx < Len(connections)
  THEN /\ wpc' = "get"
       /\ idx' = idx + 1
       /\ UNCHANGED snapshot
  ELSE /\ wpc' = "top"
       /\ idx' = 0
       /\ snapshot' = <<>>

\* run(): the for loop moves to the next entry of the copy, or the pass
\* is over and the while condition is next.
Advance ==
  IF idx < Len(snapshot)
  THEN /\ wpc' = "get"
       /\ idx' = idx + 1
       /\ UNCHANGED snapshot
  ELSE /\ wpc' = "top"
       /\ idx' = 0
       /\ snapshot' = <<>>

\* Mutant of Handled: the except clause names the engine's error only.
Handled_narrow(exc) == exc = "EngineError"

\* run(): `except Exception` catches what transcribe raises and what
\* run_coroutine_threadsafe raises (RuntimeError on a closed loop).
Handled(exc) == exc \in {"EngineError", "RuntimeError"}

\* run(): an exception raised in the try block: it is logged and the for
\* loop goes on, or it ends the thread.
Raise(exc) ==
  IF Handled(exc)
  THEN Advance
  ELSE /\ wpc' = "dead"
       /\ UNCHANGED <<snapshot, idx>>

\* run(): request_queue.get() has an item: it is taken and handed to
\* transcribe.
Dequeue ==
  LET r == queue_get(queues[CurQueue]) IN
  /\ queues' = [queues EXCEPT ![CurQueue] = r.rest]
  /\ request' = <<r.item>>
  /\ engine' = EnterEngine(engine, "worker", r.item.audio)
  /\ deq' = [deq EXCEPT ![r.item.audio[1]] = @ + 1]
  /\ passDeq' = [passDeq EXCEPT ![r.item.audio[1]] = @ + 1]
  /\ wpc' = "transcribe"
  /\ UNCHANGED <<events, threadVars, registryVars, handlerVars, closed,
                 loopVars, snapshot, idx, transcription, loopq, sinkVars,
                 failed, lost, freePasses, owed, afterFail, churned>>

\* request_queue.get() (block=True, no timeout) on a queue with an item.
Get ==
  /\ wpc = "get"
  /\ queues[CurQueue] # <<>>
  /\ Dequeue

\* request_queue.get() on an empty queue: the thread waits for a put.
\* queue.Empty is never raised, the `continue` is dead code.
Block ==
  /\ wpc = "get"
  /\ queues[CurQueue] = <<>>
  /\ wpc' = "waiting"
  /\ UNCHANGED <<events, threadVars, registryVars, queues, handlerVars,
                 closed, loopVars, snapshot, idx, request, transcription,
                 engine, loopq, sinkVars, deq, failed, lost, passVars,
                 afterFail, churned>>

\* A put on the queue the worker waits on wakes it up.
Wake ==
  /\ wpc = "waiting"
  /\ queues[CurQueue] # <<>>
  /\ Dequeue

\* transcribe returns the text.
TranscribeOk ==
  /\ wpc = "transcribe"
  /\ transcription' = <<transcribe(request[1].audio)>>
  /\ engine' = LeaveEngine(engine, "worker", request[1].audio)
  /\ wpc' = "post"
  /\ UNCHANGED <<events, threadVars, registryVars, queues, handlerVars,
                 closed, loopVars, snapshot, idx, request, loopq, sinkVars,
                 deq, failed, lost, passVars, afterFail, churned>>

\* Mutant of OnFailure: the failed request is put back on its queue.
OnFailure_requeue(q, r) == Append(q, r)

\* run(): the except clause only logs; the queue the request came from
\* stays as it is.
OnFailure(q, r) == q

\* transcribe raises: `except Exception` logs it, the request is gone.
TranscribeFail ==
  /\ wpc = "transcribe"
  /\ OneMoreEvent
  /\ queues' = [queues EXCEPT ![CurQueue] = OnFailure(@, request[1])]
  /\ failed' = failed \cup {request[1].audio}
  /\ engine' = LeaveEngine(engine, "worker", request[1].audio)
  /\ request' = <<>>
  /\ Raise("EngineError")
  /\ UNCHANGED <<threadVars, registryVars, handlerVars, closed, loopVars,
                 transcription, loopq, sinkVars, deq, lost, passVars,
                 afterFail, churned>>

\* Mutant of Post: the worker thread puts the text on the result queue
\* itself (put_nowait from the worker) instead of posting the put.
Post_direct ==
  /\ wpc = "post"
  /\ result_queue' = [result_queue EXCEPT ![request[1].result_queue] =
                        Append(@, transcription[1])]
  /\ out' = [out EXCEPT ![request[1].result_queue] =
               Append(@, transcription[1])]
  /\ request' = <<>>
  /\ transcription' = <<>>
  /\ Advance
  /\ UNCHANGED <<events, threadVars, registryVars, queues, handlerVars,
                 closed, loopVars, engine, loopq, sent, deq, failed, lost,
                 passVars, afterFail, churned>>

\* asyncio.run_coroutine_threadsafe(request.result_queue.put(text), loop):
\* the put is posted to the loop; on a closed loop the call raises and
\* `except Exception` logs it.
Post ==
  /\ wpc = "post"
  /\ IF loopClosed
     THEN /\ lost' = lost \cup {request[1].audio}
          /\ UNCHANGED loopq
          /\ Raise("RuntimeError")
     ELSE /\ loopq' = Append(loopq,
                             [text |-> transcription[1],
                              result_queue |-> request[1].result_queue])
          /\ UNCHANGED lost
          /\ Advance
  /\ request' = <<>>
  /\ transcription' = <<>>
  /\ UNCHANGED <<events, threadVars, registryVars, queues, handlerVars,
                 closed, loopVars, engine, sinkVars, deq, failed, passVars,
                 afterFail, churned>>

\* ---------------------------------------------------------------- loop
\* The event loop runs the oldest posted callback: result_queue.put(text)
\* on an unbounded asyncio.Queue.
LoopPut ==
  /\ loopq # <<>>
  /\ loopBusy = {}
  /\ ~loopClosed
  /\ LET cb == Head(loopq) IN
       /\ result_queue' = [result_queue EXCEPT ![cb.result_queue] =
                             Append(@, cb.text)]
       /\ out' = [out EXCEPT ![cb.result_queue] = Append(@, cb.text)]
  /\ loopq' = Tail(loopq)
  /\ UNCHANGED <<events, threadVars, registryVars, queues, handlerVars,
                 closed, loopVars, workerVars, engine, sent, deq, failed,
                 lost, passVars, afterFail, churned>>

\* __send_results of connection c: result_queue.get(), then send_text;
\* on a closed websocket send_text raises, the error is logged and the
\* text is gone.
SendResult(c) ==
  /\ cpc[c] # "idle"
  /\ result_queue[c] # <<>>
  /\ loopBusy = {}
  /\ ~loopClosed
  /\ result_queue' = [result_queue EXCEPT ![c] = Tail(@)]
  /\ IF closed[c]
     THEN /\ lost' = lost \cup {Head(result_queue[c]).text}
          /\ UNCHANGED sent
     ELSE /\ sent' = [sent EXCEPT ![c] = Append(@, Head(result_queue[c]))]
          /\ UNCHANGED lost
  /\ UNCHANGED <<events, threadVars, registryVars, queues, handlerVars,
                 closed, loopVars, workerVars, engine, loopq, out, deq,
                 failed, passVars, afterFail, churned>>

\* ---------------------------------------------------------------- system
Next ==
  \/ Start
  \/ Stop
  \/ \E c \in ConnIds : Accept(c)
  \/ \E c \in ConnIds : Register(c)
  \/ \E c \in ConnIds : LoadDone(c)
  \/ \E c \in ConnIds : Submit(c)
  \/ \E c \in ConnIds : Disconnect(c)
  \/ CloseLoop
  \/ Top
  \/ Get
  \/ Block
  \/ Wake
  \/ TranscribeOk
  \/ TranscribeFail
  \/ Post
  \/ LoopPut
  \/ \E c \in ConnIds : SendResult(c)

Spec == Init /\ [][Next]_vars

\* The scheduling the code relies on: the worker thread keeps running, the
\* event loop keeps running its callbacks and coroutines, and the handler
\* was constructed (it starts the worker).  Exceptional events and new
\* connections are not owed to anyone.
WorkerStep == Top \/ Get \/ Block \/ Wake \/ TranscribeOk \/ Post
LoopStep ==
  \/ LoopPut
  \/ \E c \in ConnIds : LoadDone(c) \/ Submit(c) \/ SendResult(c)

FairSpec ==
  /\ Spec
  /\ WF_vars(~started /\ Start)
  /\ WF_vars(WorkerStep)
  /\ WF_vars(LoopStep)

\* ---------------------------------------------------------------- notions
\* The inbound queue registered for connection id.
Inbound(id) == queues[Lookup(connections, id)]

\* Connection id is registered and a request is pending on its queue.
HasPending(id) == id \in Keys(connections) /\ Inbound(id) # <<>>

\* The worker sits in request_queue.get() on an empty queue.
WaitingOnEmpty == wpc = "waiting" /\ queues[CurQueue] = <<>>

\* The worker sits in get() on the empty queue of a connection whose
\* accept() has finished: nothing will ever be put on that queue.
WaitingForever == WaitingOnEmpty /\ cpc[snapshot[idx][1]] = "done"

\* The text of audio chunk a has been put on some result queue.
Delivered(a) ==
  \E c \in ConnIds : \E i \in 1..Len(out[c]) : out[c][i].text = a

\* The n of the chunks a sequence of texts belongs to increases.
InSubmissionOrder(texts) ==
  \A i, j \in 1..Len(texts) : i < j => texts[i].text[2] < texts[j].text[2]

\* ---------------------------------------------------------------- claims
\* C1: the scan never blocks on one connection's queue: there is no state
\* in which the worker waits on an empty inbound queue while another
\* registered connection has a pending request.
C1_ScanNeverBlocks ==
  ~(WaitingOnEmpty /\ \E id \in ConnIds : HasPending(id))

\* C2: per-connection FIFO: the texts put on a connection's result queue,
\* and the texts sent to its client, come in the order in which their
\* requests were put on the inbound queue.
C2_PerConnectionFifo ==
  \A c \in ConnIds : InSubmissionOrder(out[c]) /\ InSubmissionOrder(sent[c])

C2_Witness ==
  /\ Len(sent[1]) >= 3
  /\ Len(sent[2]) >= 1

\* C3: at most one request is inside transcribe, the call is made by the
\* worker thread only, and it is the request the worker holds.
C3_EngineMutex ==
  /\ Cardinality(engine) <= 1
  /\ \A e \in engine :
       /\ e.ctx = "worker"
       /\ wpc = "transcribe"
       /\ Len(request) = 1
       /\ request[1].audio = e.audio
  /\ wpc = "transcribe" => engine # {}

C3_Witness ==
  /\ engine # {}
  /\ \E id \in ConnIds : HasPending(id) /\ id # request[1].audio[1]

\* C4: round robin: a pass dequeues at most one request per connection,
\* and when a pass starts with a as the second request in line of one
\* connection and b as the first in line of another, the text of a is not
\* delivered before b is settled (delivered, or failed, or dropped).
C4_RoundRobin ==
  /\ \A c \in ConnIds : passDeq[c] <= 1
  /\ \A p \in owed :
       Delivered(p[1]) => Delivered(p[2]) \/ p[2] \in failed \cup lost

C4_Witness ==
  \E p \in owed :
    /\ Delivered(p[1])
    /\ Delivered(p[2])
    /\ connections[1][1] = p[1][1]
    /\ nchunks[p[1][1]] = MaxChunks
    /\ nchunks[p[2][1]] = 1

\* C5: fault isolation: when transcribe has failed on exactly one request,
\* a request enqueued after the failure is never left on its queue with
\* the worker waiting forever somewhere else.
C5_FaultIsolation ==
  ~(/\ Cardinality(failed) = 1
    /\ WaitingForever
    /\ \E a \in afterFail : \E i \in 1..Len(Inbound(a[1])) :
         Inbound(a[1])[i].audio = a)

\* C6: once stop() has been called the worker eventually is stopped.
C6_StopTerminates == (~is_running) ~> (wpc = "stopped")

\* C7: idempotent registration: every get_request_queue(id) returns the
\* same handle, the one the registry holds for id; the registry holds one
\* entry per id; the requests put on that queue are all still there or
\* were dequeued by the worker.
C7_IdempotentRegistration ==
  /\ \A i, j \in 1..Len(connections) :
       connections[i][1] = connections[j][1] => i = j
  /\ \A id \in Keys(connections) :
       /\ \A k \in 1..Len(returned[id]) :
            returned[id][k] = Lookup(connections, id)
       /\ Len(Inbound(id)) + deq[id] = sub[id]

C7_Witness ==
  \E id \in Keys(connections) :
    /\ Len(returned[id]) >= 2
    /\ Len(Inbound(id)) >= 2

\* C8: the worker never completes two passes without any request back to
\* back, without an idle step between them.
C8_IdleInsteadOfSpin == freePasses < 2

\* C9: when the client of a connection went away while one of its
\* requests was in flight, the worker does not end up waiting forever on
\* that connection's queue while another connection has a pending request.
C9_ChurnSafe ==
  ~(\E a \in churned :
      /\ WaitingForever
      /\ snapshot[idx][1] = a
      /\ \E b \in ConnIds \ {a} : HasPending(b))

\* C10: start() on a worker that was started raises no error, and one
\* worker execution unit is running.
C10_StartIdempotent == ~startErr

\* C11: no cross-delivery: a posted put, a text on a result queue and a
\* text sent to a client belong to a chunk of that very connection, and
\* the text is the transcription of that chunk.
C11_NoCrossDelivery ==
  /\ \A i \in 1..Len(loopq) :
       /\ loopq[i].text.text[1] = loopq[i].result_queue
       /\ loopq[i].text = transcribe(<<loopq[i].result_queue,
                                       loopq[i].text.text[2]>>)
  /\ \A c \in ConnIds :
       /\ \A i \in 1..Len(out[c]) : out[c][i].text[1] = c
       /\ \A i \in 1..Len(result_queue[c]) : result_queue[c][i].text[1] = c
       /\ \A i \in 1..Len(sent[c]) :
            /\ sent[c][i].text[1] = c
            /\ sent[c][i].text[2] \in 1..sub[c]

C11_Witness ==
  /\ nchunks[1] = 1
  /\ nchunks[2] = 1
  /\ sent[1] = <<transcribe(<<1, 1>>)>>
  /\ sent[2] = <<transcribe(<<2, 1>>)>>

\* The text of audio chunk a has been sent to a client.
Sent(a) ==
  \E c \in ConnIds : \E i \in 1..Len(sent[c]) : sent[c][i].text = a

\* C12: a delivery whose destination is gone (closed event loop, closed
\* websocket) is dropped: the worker thread does not die of it, the text
\* reaches no client, and the worker does not keep the request.
C12_DeliveryUnreachable ==
  /\ wpc # "dead"
  /\ \A a \in lost :
       /\ ~Sent(a)
       /\ request # <<>> => request[1].audio # a
       /\ \A i \in 1..Len(loopq) : loopq[i].text.text # a

C12_Witness ==
  /\ loopClosed
  /\ lost # {}
  /\ wpc = "transcribe"

\* C14: while the worker is running and the event loop is open, every
\* request put on a registered connection's inbound queue is eventually
\* dequeued and handed to transcribe, whatever the other connections'
\* queues hold.
C14_EventuallyProcessed ==
  \A c \in ConnIds : \A n \in 1..MaxChunks :
    (sub[c] >= n) ~> (deq[c] >= n \/ ~is_running \/ loopClosed)

\* How often audio chunk a occurs in a sequence of requests / of texts.
RECURSIVE CountAudio(_, _)
CountAudio(reqs, a) ==
  IF reqs = <<>> THEN 0
  ELSE (IF Head(reqs).audio = a THEN 1 ELSE 0) + CountAudio(Tail(reqs), a)

RECURSIVE CountText(_, _)
CountText(texts, a) ==
  IF texts = <<>> THEN 0
  ELSE (IF Head(texts).text = a THEN 1 ELSE 0) + CountText(Tail(texts), a)

RECURSIVE SumOver(_, _, _)
SumOver(k, a, seqs) ==
  IF k = 0 THEN 0 ELSE CountText(seqs[k], a) + SumOver(k - 1, a, seqs)

RECURSIVE SumQueues(_, _)
SumQueues(k, a) ==
  IF k = 0 THEN 0 ELSE CountAudio(queues[k], a) + SumQueues(k - 1, a)

\* C15: exactly-once consumption: a submitted request is at one place at
\* a time: on an inbound queue, in the worker's hand (inside transcribe
\* exactly then, or about to be posted), posted to the loop, put on a
\* result queue, failed, or dropped at posting.  So it is dequeued and
\* transcribed once, yields at most one result, and a failed request is
\* on no queue again.
C15_ExactlyOnce ==
  /\ \A c \in ConnIds : \A n \in 1..sub[c] :
       LET a == <<c, n>> IN
         SumQueues(Len(queues), a)
         + CountAudio(request, a)
         + CountText([i \in 1..Len(loopq) |-> loopq[i].text], a)
         + SumOver(NumConns, a, out)
         + (IF a \in failed THEN 1 ELSE 0)
         + (IF a \in lost /\ SumOver(NumConns, a, out) = 0 THEN 1 ELSE 0)
         = 1
  /\ \A e \in engine : request # <<>> /\ request[1].audio = e.audio
  /\ \A c \in ConnIds : deq[c] <= sub[c]

C15_Witness ==
  /\ failed # {}
  /\ \E c \in ConnIds : out[c] # <<>>
  /\ \A k \in 1..Len(queues) : queues[k] = <<>>
  /\ request = <<>>
  /\ loopq = <<>>

\* The worker is inside the for loop of a pass.
InPass == wpc \in {"get", "waiting", "transcribe", "post"}

\* C16: snapshot isolation: a pass begins with a copy of the registry as
\* it is then; until the pass ends the copy does not change and the for
\* loop goes through it entry by entry, whatever is registered meanwhile;
\* a request dequeued in the pass comes from an entry of the copy that
\* the loop has reached.
C16_SnapshotIsolation ==
  /\ [][/\ (~InPass /\ InPass') => (snapshot' = connections /\ idx' = 1)
        /\ (InPass /\ InPass') =>
             (snapshot' = snapshot /\ idx' \in {idx, idx + 1})]_vars
  /\ [](InPass =>
          /\ idx \in 1..Len(snapshot)
          /\ \A c \in ConnIds :
               passDeq[c] > 0 => \E i \in 1..idx : snapshot[i][1] = c)

C16_Witness ==
  /\ InPass
  /\ Len(connections) > Len(snapshot)
  /\ idx = Len(snapshot)
  /\ wpc = "post"

C18_HandOffByPosting ==
  [][/\ (result_queue' # result_queue \/ out' # out \/ sent' # sent) =>
          UNCHANGED <<workerVars, engine, queues>>
     /\ (wpc = "post" /\ wpc' # "post") =>
          /\ UNCHANGED <<result_queue, out, sent>>
          /\ \/ loopq' = Append(loopq,
                                [text |-> transcription[1],
                                 result_queue |-> request[1].result_queue])
             \/ loopClosed /\ loopq' = loopq
     /\ loopq' # loopq =>
          \/ wpc = "post" /\ wpc' # "post"
          \/ loopq' = Tail(loopq) /\ UNCHANGED workerVars
    ]_vars

C18_Witness ==
  /\ Len(loopq) >= 2
  /\ \E c \in ConnIds : result_queue[c] # <<>>
  /\ wpc = "transcribe"

\* Sequence s is the beginning of sequence t.
IsPrefix(s, t) == Len(s) <= Len(t) /\ \A i \in 1..Len(s) : s[i] = t[i]

\* C19: the registry only grows: every step keeps the entries it holds,
\* with their queue handles and their order, so the copy of a pass is the
\* beginning of the registry at any later time, and a connection whose
\* accept() has run stays registered with the handle accept() got, also
\* when its client is gone.
C19_RegistryOnlyGrows ==
  /\ [][IsPrefix(connections, connections')]_vars
  /\ [](/\ IsPrefix(snapshot, connections)
        /\ \A c \in ConnIds :
             cpc[c] # "idle" =>
               /\ c \in Keys(connections)
               /\ Lookup(connections, c) = request_queue[c])

C19_Witness ==
  \E c \in ConnIds :
    /\ closed[c]
    /\ cpc[c] = "done"
    /\ wpc = "waiting"
    /\ snapshot[idx][1] = c
    /\ deq[c] = sub[c]

====
